---- MODULE Spec2Model ----
(***************************************************************************)
(* Model of gha-runner: the runner registry client (gha_runner/gh.py) and  *)
(* the AWS cloud deployment (gha_runner/clouddeployment.py and its older   *)
(* copy gha_runner/interface.py).                                          *)
(*                                                                         *)
(* The hosting service's runner registry and the cloud provider are the    *)
(* environment: runners register and go away on their own, instances      *)
(* progress pending -> running and shutting-down -> terminated on their    *)
(* own.  The client is one blocking thread (pc is its position).           *)
(***************************************************************************)
EXTENDS Naturals, Sequences, FiniteSets, TLC

(***************************************************************************)
(* Bounds of the model.                                                    *)
(***************************************************************************)
\* runner ids the hosting service hands out (so the registry holds at most
\* this many runners)
MaxRunnerId == 3

\* instances the cloud provider has room for (and the largest count asked for)
MaxInstances == 2

\* the largest number of registration tokens asked for in one call
MaxTokens == 3

\* registration tokens the hosting service hands out
MaxTokenId == 6

\* the largest number of assets in the latest release
MaxAssets == 2

\* the largest MaxAttempts a caller passes as a poll option
MaxPollOption == 2

\* the SDK waiter's own MaxAttempts, used when the waiter is given no
\* WaiterConfig (larger than any caller's option, as the SDK's 40 is in practice)
DefaultMaxAttempts == 3

\* labels a caller asks for; a runner's label set is any subset
Labels == {"a", "b"}

VARIABLES
    runners,        \* hosting service: the registered runners, in listing order
    nextRunnerId,   \* hosting service: the id the next registered runner gets
    pc,             \* the client's position
    op,             \* the operation the client is in, or finished last
    label,          \* its label argument
    runner,         \* local `runner` / the value get_runner returned
    matched,        \* local `runners` / the value get_runners returned
    reqLog,         \* removal requests issued by the current call, with the service's report
    outcome,        \* how the operation ended ("none" while it runs)
    lastEv,         \* wait_for_runner: the last thing it did, "check" or "sleep"
    act,            \* the action that led to this state
    impl,           \* which AWS class: "clouddeployment" or "interface"
    cfg,            \* the AWS object's fields
    tmpl,           \* the placeholders of templates/user-script.sh.templ
    instances,      \* cloud provider: the instances, instance id = position
    count,          \* the count argument of create_instance / create_runner_tokens
    ids,            \* the id list a wait or removal is given / create_instance returned
    kwargs,         \* the poll options of a wait
    waiter,         \* the waiter invocation in progress
    calls,          \* the provider calls the current operation has issued
    providers,      \* CloudDeploymentFactory.providers: provider name -> class
    provider_name,  \* get_provider's argument
    given,          \* the keyword arguments of get_provider / build_user_data
    message,        \* the message of the error raised
    rendered,       \* the script build_user_data returned
    tokens,         \* create_runner_tokens: the list `tokens`
    minted,         \* hosting service: mint requests received from the current call
    nextToken,      \* hosting service: the next registration token
    assets,         \* the assets of the latest actions/runner release, in listing order
    platform,       \* get_latest_runner_release's arguments
    architecture,
    url             \* the download URL it returned

\* the registry side, the provider side, and what the client shares
ghOnly == <<runners, nextRunnerId, label, runner, matched, reqLog, lastEv>>

awsOnly == <<impl, cfg, tmpl, instances, count, ids, kwargs, waiter, calls>>

\* the factory, the template rendering, the tokens and the release lookup
factoryOnly == <<providers, provider_name, given, message, rendered>>

tokenOnly == <<tokens, minted, nextToken>>

releaseOnly == <<assets, platform, architecture, url>>

otherOnly == <<factoryOnly, tokenOnly, releaseOnly>>

vars == <<runners, nextRunnerId, pc, op, label, runner, matched, reqLog,
          outcome, lastEv, act, impl, cfg, tmpl, instances, count, ids, kwargs,
          waiter, calls, providers, provider_name, given, message, rendered, tokens,
          minted, nextToken, assets, platform, architecture, url>>

(***************************************************************************)
(* Registry client: lookups                                                *)
(***************************************************************************)
\* Python's None for a runner
None == [id |-> 0, labels |-> {}]

\* Python's None for a list of runners (get_runners never returns an empty list)
NoRunners == << >>

\* [runner for runner in runners if label in [l["name"] for l in runner.labels()]]
\* mutant of matched_runners: the label is not looked at
matched_runners_all(rs, l) == rs

matched_runners(rs, l) == SelectSeq(rs, LAMBDA r : l \in r.labels)

\* mutant of get_runner: the last match instead of the first
get_runner_last(rs, l) ==
    IF matched_runners(rs, l) # << >>
    THEN matched_runners(rs, l)[Len(matched_runners(rs, l))]
    ELSE None

get_runner(rs, l) ==
    IF matched_runners(rs, l) # << >> THEN Head(matched_runners(rs, l)) ELSE None

get_runners(rs, l) ==
    IF matched_runners(rs, l) # << >> THEN matched_runners(rs, l) ELSE NoRunners

\* repo.remove_self_hosted_runner(runner): the service's report (True only for
\* a deletion it carried out) and the registry afterwards
Registered(rs, id) == \E i \in 1..Len(rs) : rs[i].id = id

remove_reported(rs, id, ok) == ok /\ Registered(rs, id)

\* mutant of remove_self_hosted_runner: success reported, nothing deleted
remove_self_hosted_runner_kept(rs, id, ok) == rs

remove_self_hosted_runner(rs, id, ok) ==
    IF remove_reported(rs, id, ok)
    THEN SelectSeq(rs, LAMBDA r : r.id # id)
    ELSE rs

(***************************************************************************)
(* Hosting service (environment)                                           *)
(***************************************************************************)
\* a bootstrap script registers its runner
RegisterRunner(ls) ==
    /\ nextRunnerId <= MaxRunnerId
    /\ runners' = Append(runners, [id |-> nextRunnerId, labels |-> ls])
    /\ nextRunnerId' = nextRunnerId + 1
    /\ act' = "RegisterRunner"
    /\ UNCHANGED otherOnly
    /\ UNCHANGED awsOnly
    /\ UNCHANGED <<pc, op, label, runner, matched, reqLog, outcome, lastEv>>

\* a runner is deregistered by somebody else
DeregisterRunner(id) ==
    /\ Registered(runners, id)
    /\ runners' = SelectSeq(runners, LAMBDA r : r.id # id)
    /\ act' = "DeregisterRunner"
    /\ UNCHANGED otherOnly
    /\ UNCHANGED awsOnly
    /\ UNCHANGED <<nextRunnerId, pc, op, label, runner, matched, reqLog, outcome, lastEv>>

(***************************************************************************)
(* Registry client: operations                                             *)
(***************************************************************************)
GetRunner(l) ==
    /\ pc = "idle"
    /\ op' = "get_runner"
    /\ label' = l
    /\ runner' = get_runner(runners, l)
    /\ matched' = NoRunners
    /\ reqLog' = << >>
    /\ outcome' = "returned"
    /\ lastEv' = "none"
    /\ act' = "GetRunner"
    /\ UNCHANGED otherOnly
    /\ UNCHANGED awsOnly
    /\ UNCHANGED <<runners, nextRunnerId, pc>>

GetRunners(l) ==
    /\ pc = "idle"
    /\ op' = "get_runners"
    /\ label' = l
    /\ runner' = None
    /\ matched' = get_runners(runners, l)
    /\ reqLog' = << >>
    /\ outcome' = "returned"
    /\ lastEv' = "none"
    /\ act' = "GetRunners"
    /\ UNCHANGED otherOnly
    /\ UNCHANGED awsOnly
    /\ UNCHANGED <<runners, nextRunnerId, pc>>

\* wait_for_runner: runner = self.get_runner(label)
WaitCall(l) ==
    /\ pc = "idle"
    /\ op' = "wait_for_runner"
    /\ label' = l
    /\ runner' = get_runner(runners, l)
    /\ matched' = NoRunners
    /\ reqLog' = << >>
    /\ outcome' = "none"
    /\ lastEv' = "check"
    /\ pc' = "wait_while"
    /\ act' = "WaitCall"
    /\ UNCHANGED otherOnly
    /\ UNCHANGED awsOnly
    /\ UNCHANGED <<runners, nextRunnerId>>

\* mutant of WaitCheck: the loop's lookup is not assigned to `runner`
WaitCheckUnassigned ==
    /\ pc = "wait_while"
    /\ runner = None
    /\ lastEv' = "check"
    /\ pc' = "wait_sleep"
    /\ act' = "WaitCheck"
    /\ UNCHANGED otherOnly
    /\ UNCHANGED awsOnly
    /\ UNCHANGED <<runners, nextRunnerId, op, label, runner, matched, reqLog, outcome>>

\* while runner is None: print(...); runner = self.get_runner(label)
WaitCheck ==
    /\ pc = "wait_while"
    /\ runner = None
    /\ runner' = get_runner(runners, label)
    /\ lastEv' = "check"
    /\ pc' = "wait_sleep"
    /\ act' = "WaitCheck"
    /\ UNCHANGED otherOnly
    /\ UNCHANGED awsOnly
    /\ UNCHANGED <<runners, nextRunnerId, op, label, matched, reqLog, outcome>>

\* time.sleep(wait), then back to the loop test
WaitSleep ==
    /\ pc = "wait_sleep"
    /\ lastEv' = "sleep"
    /\ pc' = "wait_while"
    /\ act' = "WaitSleep"
    /\ UNCHANGED otherOnly
    /\ UNCHANGED awsOnly
    /\ UNCHANGED <<runners, nextRunnerId, op, label, runner, matched, reqLog, outcome>>

\* the loop ends: print("found"), return
WaitReturn ==
    /\ pc = "wait_while"
    /\ runner # None
    /\ outcome' = "returned"
    /\ pc' = "idle"
    /\ act' = "WaitReturn"
    /\ UNCHANGED otherOnly
    /\ UNCHANGED awsOnly
    /\ UNCHANGED <<runners, nextRunnerId, op, label, runner, matched, reqLog, lastEv>>

\* remove_runner: runner = self.get_runner(label); raise if None
RemoveRunnerCall(l) ==
    /\ pc = "idle"
    /\ op' = "remove_runner"
    /\ label' = l
    /\ runner' = get_runner(runners, l)
    /\ matched' = NoRunners
    /\ reqLog' = << >>
    /\ lastEv' = "none"
    /\ IF get_runner(runners, l) # None
       THEN pc' = "remove_one" /\ outcome' = "none"
       ELSE pc' = "idle" /\ outcome' = "MissingRunnerLabel"
    /\ act' = "RemoveRunnerCall"
    /\ UNCHANGED otherOnly
    /\ UNCHANGED awsOnly
    /\ UNCHANGED <<runners, nextRunnerId>>

\* mutant of RemoveRunnerRequest: the service's report is ignored
RemoveRunnerRequestUnchecked(ok) ==
    /\ pc = "remove_one"
    /\ runners' = remove_self_hosted_runner(runners, runner.id, ok)
    /\ reqLog' = Append(reqLog, [id |-> runner.id,
                                 removed |-> remove_reported(runners, runner.id, ok)])
    /\ outcome' = "returned"
    /\ pc' = "idle"
    /\ act' = "RemoveRunnerRequest"
    /\ UNCHANGED otherOnly
    /\ UNCHANGED awsOnly
    /\ UNCHANGED <<nextRunnerId, op, label, runner, matched, lastEv>>

\* removed = repo.remove_self_hosted_runner(runner); raise if not removed
RemoveRunnerRequest(ok) ==
    /\ pc = "remove_one"
    /\ runners' = remove_self_hosted_runner(runners, runner.id, ok)
    /\ reqLog' = Append(reqLog, [id |-> runner.id,
                                 removed |-> remove_reported(runners, runner.id, ok)])
    /\ outcome' = IF remove_reported(runners, runner.id, ok)
                  THEN "returned" ELSE "RuntimeError"
    /\ pc' = "idle"
    /\ act' = "RemoveRunnerRequest"
    /\ UNCHANGED otherOnly
    /\ UNCHANGED awsOnly
    /\ UNCHANGED <<nextRunnerId, op, label, runner, matched, lastEv>>

\* remove_runners: runners = self.get_runners(label); raise if None
RemoveRunnersCall(l) ==
    /\ pc = "idle"
    /\ op' = "remove_runners"
    /\ label' = l
    /\ runner' = None
    /\ matched' = get_runners(runners, l)
    /\ reqLog' = << >>
    /\ lastEv' = "none"
    /\ IF get_runners(runners, l) # NoRunners
       THEN pc' = "remove_each" /\ outcome' = "none"
       ELSE pc' = "idle" /\ outcome' = "MissingRunnerLabel"
    /\ act' = "RemoveRunnersCall"
    /\ UNCHANGED otherOnly
    /\ UNCHANGED awsOnly
    /\ UNCHANGED <<runners, nextRunnerId>>

\* mutant of RemoveRunnersRequest: a failed removal does not end the loop,
\* the error is raised only if the last removal failed
RemoveRunnersRequestContinues(ok) ==
    /\ pc = "remove_each"
    /\ runner' = Head(matched)
    /\ matched' = Tail(matched)
    /\ runners' = remove_self_hosted_runner(runners, Head(matched).id, ok)
    /\ reqLog' = Append(reqLog, [id |-> Head(matched).id,
                                 removed |-> remove_reported(runners, Head(matched).id, ok)])
    /\ IF Tail(matched) # << >>
       THEN pc' = "remove_each" /\ outcome' = "none"
       ELSE IF ~remove_reported(runners, Head(matched).id, ok)
            THEN pc' = "idle" /\ outcome' = "RuntimeError"
            ELSE pc' = "idle" /\ outcome' = "returned"
    /\ act' = "RemoveRunnersRequest"
    /\ UNCHANGED otherOnly
    /\ UNCHANGED awsOnly
    /\ UNCHANGED <<nextRunnerId, op, label, lastEv>>

\* for runner in runners: removed = ...remove_self_hosted_runner(runner);
\* raise if not removed; return when the list is exhausted
RemoveRunnersRequest(ok) ==
    /\ pc = "remove_each"
    /\ runner' = Head(matched)
    /\ matched' = Tail(matched)
    /\ runners' = remove_self_hosted_runner(runners, Head(matched).id, ok)
    /\ reqLog' = Append(reqLog, [id |-> Head(matched).id,
                                 removed |-> remove_reported(runners, Head(matched).id, ok)])
    /\ IF ~remove_reported(runners, Head(matched).id, ok)
       THEN pc' = "idle" /\ outcome' = "RuntimeError"
       ELSE IF Tail(matched) = << >>
            THEN pc' = "idle" /\ outcome' = "returned"
            ELSE pc' = "remove_each" /\ outcome' = "none"
    /\ act' = "RemoveRunnersRequest"
    /\ UNCHANGED otherOnly
    /\ UNCHANGED awsOnly
    /\ UNCHANGED <<nextRunnerId, op, label, lastEv>>

(***************************************************************************)
(* Registry client: registration tokens                                    *)
(***************************************************************************)
\* what the hosting service answers to a mint request: a success response
\* with a token, a success response without one, a non-success response, or
\* no response at all (requests.post raises)
MintResponses == {"ok", "no_token", "not_ok", "transport"}

\* _do_request: what it raises ("none": it returns resp.json())
do_request_raises(resp) ==
    CASE resp = "transport" -> "RequestException"
      [] resp = "not_ok" -> "RuntimeError"
      [] OTHER -> "none"

\* mutant of create_runner_token_raises: no try/except around the request
create_runner_token_unwrapped(resp) ==
    CASE do_request_raises(resp) # "none" -> do_request_raises(resp)
      [] resp = "no_token" -> "KeyError"
      [] OTHER -> "none"

\* create_runner_token: what it raises ("none": it returns res["token"]);
\* except Exception turns whatever was raised into TokenRetrievalError
create_runner_token_raises(resp) ==
    IF do_request_raises(resp) # "none" \/ resp = "no_token"
    THEN "TokenRetrievalError"
    ELSE "none"

\* create_runner_tokens(count): tokens = []; for _ in range(count)
CreateRunnerTokensCall(n) ==
    /\ pc = "idle"
    /\ nextToken + n <= MaxTokenId + 1
    /\ op' = "create_runner_tokens"
    /\ count' = n
    /\ tokens' = << >>
    /\ minted' = << >>
    /\ IF n = 0
       THEN pc' = "idle" /\ outcome' = "returned"
       ELSE pc' = "tokens_loop" /\ outcome' = "none"
    /\ act' = "CreateRunnerTokensCall"
    /\ UNCHANGED <<factoryOnly, releaseOnly>>
    /\ UNCHANGED ghOnly
    /\ UNCHANGED <<nextToken, impl, cfg, tmpl, instances, ids, kwargs, waiter, calls>>

\* token = self.create_runner_token(); tokens.append(token); return tokens
\* after the last one
CreateRunnerToken(resp) ==
    /\ pc = "tokens_loop"
    /\ minted' = Append(minted, resp)
    /\ nextToken' = IF resp = "ok" THEN nextToken + 1 ELSE nextToken
    /\ IF create_runner_token_raises(resp) # "none"
       THEN /\ tokens' = << >>
            /\ outcome' = create_runner_token_raises(resp)
            /\ pc' = "idle"
       ELSE /\ tokens' = Append(tokens, nextToken)
            /\ IF Len(tokens) + 1 = count
               THEN pc' = "idle" /\ outcome' = "returned"
               ELSE pc' = "tokens_loop" /\ outcome' = "none"
    /\ act' = "CreateRunnerToken"
    /\ UNCHANGED <<factoryOnly, releaseOnly>>
    /\ UNCHANGED ghOnly
    /\ UNCHANGED <<op, impl, cfg, tmpl, instances, count, ids, kwargs, waiter, calls>>

(***************************************************************************)
(* Registry client: runner release lookup                                  *)
(***************************************************************************)
\* no download URL
NoUrl == << >>

\* Python's `p in n` on strings, a string being the sequence of its pieces:
\* p occurs in n as a contiguous run (the empty string occurs in every string)
contains(n, p) ==
    \E i \in 0..(Len(n) - Len(p)) : SubSeq(n, i + 1, i + Len(p)) = p

\* the if of the loop body
asset_matches(asset, p, a) == contains(asset.name, p) /\ contains(asset.name, a)

\* what the loop returns ("none": it runs off the end of the assets)
RECURSIVE first_asset(_, _, _)
first_asset(as, p, a) ==
    IF as = << >> THEN NoUrl
    ELSE IF asset_matches(Head(as), p, a) THEN Head(as).browser_download_url
    ELSE first_asset(Tail(as), p, a)

\* mutant of get_latest_runner_release: the loop keeps the last match
RECURSIVE last_asset(_, _, _)
last_asset(as, p, a) ==
    IF as = << >> THEN NoUrl
    ELSE IF last_asset(Tail(as), p, a) # NoUrl THEN last_asset(Tail(as), p, a)
    ELSE IF asset_matches(Head(as), p, a) THEN Head(as).browser_download_url
    ELSE NoUrl

\* get_latest_runner_release: the URL returned, NoUrl where it raises
get_latest_runner_release(as, p, a) == first_asset(as, p, a)

GetLatestRunnerRelease(p, a) ==
    /\ pc = "idle"
    /\ op' = "get_latest_runner_release"
    /\ platform' = p
    /\ architecture' = a
    /\ IF get_latest_runner_release(assets, p, a) = NoUrl
       THEN outcome' = "RuntimeError" /\ url' = NoUrl
       ELSE outcome' = "returned" /\ url' = get_latest_runner_release(assets, p, a)
    /\ act' = "GetLatestRunnerRelease"
    /\ UNCHANGED <<factoryOnly, tokenOnly>>
    /\ UNCHANGED ghOnly
    /\ UNCHANGED awsOnly
    /\ UNCHANGED <<pc, assets>>

(***************************************************************************)
(* AWS provider: request construction                                      *)
(***************************************************************************)
\* the dataclass fields (named as in clouddeployment.py; interface.py calls
\* home_dir `homedir` and runner_release `runnerRelease`)
Config(subnet, sg, role) ==
    [image_id |-> "ami-1", instance_type |-> "t2.micro",
     gh_runner_token |-> "token-1", home_dir |-> "/home/ec2-user",
     repo |-> "owner/repo", tags |-> << >>, region_name |-> "us-east-1",
     runner_release |-> "release-url", labels |-> "runner-1",
     subnet_id |-> subnet, security_group_id |-> sg, iam_role |-> role,
     script |-> "echo"]

\* the name under which create_instance passes the runner release to the template
ReleaseKey(im) == IF im = "clouddeployment" THEN "runner_release" ELSE "runnerRelease"

\* userDataParams of create_instance
userDataParams(im, c) ==
    [k \in {"token", "repo", "homedir", "script", ReleaseKey(im), "labels"} |->
        CASE k = "token" -> c.gh_runner_token
          [] k = "repo" -> c.repo
          [] k = "homedir" -> c.home_dir
          [] k = "script" -> c.script
          [] k = "labels" -> c.labels
          [] OTHER -> c.runner_release]

\* the two templates: placeholders named as clouddeployment.py passes them, or
\* as interface.py does
TemplateSnake == {"token", "repo", "homedir", "script", "runner_release", "labels"}

TemplateCamel == {"token", "repo", "homedir", "script", "runnerRelease", "labels"}

\* Template(template).substitute(**kwargs) raises when a placeholder of the
\* template has no value (values without a placeholder are ignored)
substitute_raises(t, kw) == ~(t \subseteq DOMAIN kw)

\* no keyword arguments; no script
NoArguments == [k \in {} |-> ""]

\* mutant of build_user_data: $labels is left in the script
build_user_data_keeps_labels(t, kw) ==
    [p \in t |-> IF p = "labels" THEN "$labels" ELSE kw[p]]

\* the rendered script: every placeholder replaced by its value
build_user_data(t, kw) == [p \in t |-> kw[p]]

\* build_user_data(**kwargs), called on its own
BuildUserData(kw) ==
    /\ pc = "idle"
    /\ op' = "build_user_data"
    /\ given' = kw
    /\ IF substitute_raises(tmpl, kw)
       THEN outcome' = "TemplateError" /\ rendered' = NoArguments
       ELSE outcome' = "returned" /\ rendered' = build_user_data(tmpl, kw)
    /\ act' = "BuildUserData"
    /\ UNCHANGED <<tokenOnly, releaseOnly>>
    /\ UNCHANGED ghOnly
    /\ UNCHANGED awsOnly
    /\ UNCHANGED <<pc, providers, provider_name, message>>

MandatoryKeys ==
    {"ImageId", "InstanceType", "MinCount", "MaxCount", "TagSpecifications", "UserData"}

\* mutant of ParamKeys: the subnet is sent whether configured or not
ParamKeysAlwaysSubnet(c) ==
    MandatoryKeys
      \cup {"SubnetId"}
      \cup (IF c.security_group_id # "" THEN {"SecurityGroupIds"} ELSE {})
      \cup (IF c.iam_role # "" THEN {"IamInstanceProfile"} ELSE {})

\* the keys of params: the mandatory ones, and an optional one when its field
\* is not the empty string
ParamKeys(c) ==
    MandatoryKeys
      \cup (IF c.subnet_id # "" THEN {"SubnetId"} ELSE {})
      \cup (IF c.security_group_id # "" THEN {"SecurityGroupIds"} ELSE {})
      \cup (IF c.iam_role # "" THEN {"IamInstanceProfile"} ELSE {})

\* mutant of MinCountOf: at least one instance is asked for, not count
MinCountOne(n) == 1

\* "MinCount": count
MinCountOf(n) == n

\* build_aws_params (clouddeployment.py)
build_aws_params(c, n, ud) ==
    [k \in ParamKeys(c) |->
        CASE k = "ImageId" -> c.image_id
          [] k = "InstanceType" -> c.instance_type
          [] k = "MinCount" -> MinCountOf(n)
          [] k = "MaxCount" -> n
          [] k = "TagSpecifications" -> c.tags
          [] k = "UserData" -> ud
          [] k = "SubnetId" -> c.subnet_id
          [] k = "SecurityGroupIds" -> <<c.security_group_id>>
          [] OTHER -> [Name |-> c.iam_role]]

\* mutant of interface_params: the subnet is sent whether configured or not
interface_params_always_subnet(c, n, ud) ==
    [ImageId |-> c.image_id, InstanceType |-> c.instance_type,
     MinCount |-> n, MaxCount |-> n,
     TagSpecifications |-> c.tags, UserData |-> ud]
      @@ [SubnetId |-> c.subnet_id]
      @@ (IF c.security_group_id # ""
          THEN [SecurityGroupIds |-> <<c.security_group_id>>] ELSE << >>)
      @@ (IF c.iam_role # ""
          THEN [IamInstanceProfile |-> [Name |-> c.iam_role]] ELSE << >>)

\* the params dict create_instance of interface.py builds in place: the
\* literal, then a key more for each optional field that is not ""
interface_params(c, n, ud) ==
    [ImageId |-> c.image_id, InstanceType |-> c.instance_type,
     MinCount |-> n, MaxCount |-> n,
     TagSpecifications |-> c.tags, UserData |-> ud]
      @@ (IF c.subnet_id # "" THEN [SubnetId |-> c.subnet_id] ELSE << >>)
      @@ (IF c.security_group_id # ""
          THEN [SecurityGroupIds |-> <<c.security_group_id>>] ELSE << >>)
      @@ (IF c.iam_role # ""
          THEN [IamInstanceProfile |-> [Name |-> c.iam_role]] ELSE << >>)

\* the params create_instance passes to run_instances, by class
run_instances_params(im, c, n, ud) ==
    IF im = "clouddeployment"
    THEN build_aws_params(c, n, ud)
    ELSE interface_params(c, n, ud)

(***************************************************************************)
(* Cloud provider (environment)                                            *)
(***************************************************************************)
NoWaiter == [name |-> "none", max |-> 0, attempts |-> 0]

Range(L) == {L[i] : i \in 1..Len(L)}

\* the list of the ids in S, ascending
IdList(S) ==
    CHOOSE L \in [1..Cardinality(S) -> S] : \A i, j \in 1..Cardinality(S) : i < j => L[i] < L[j]

\* the numbers of instances ec2.run_instances(**params) may launch: between
\* MinCount and MaxCount, as far as there is room
Launchable(params) ==
    {k \in params["MinCount"]..params["MaxCount"] :
        k >= 1 /\ Len(instances) + k <= MaxInstances}

\* an instance boots, or finishes shutting down
InstanceProgress(i) ==
    /\ i \in 1..Len(instances)
    /\ instances[i].state \in {"pending", "shutting-down"}
    /\ instances' = [instances EXCEPT ![i].state =
                        IF @ = "pending" THEN "running" ELSE "terminated"]
    /\ act' = "InstanceProgress"
    /\ UNCHANGED otherOnly
    /\ UNCHANGED ghOnly
    /\ UNCHANGED <<pc, op, outcome, impl, cfg, tmpl, count, ids, kwargs, waiter, calls>>

(***************************************************************************)
(* AWS provider: operations                                                *)
(***************************************************************************)
\* create_instance(count), the template not rendering: build_user_data raises
CreateInstanceTemplateError(n) ==
    /\ pc = "idle"
    /\ substitute_raises(tmpl, userDataParams(impl, cfg))
    /\ op' = "create_instance"
    /\ count' = n
    /\ ids' = << >>
    /\ kwargs' = {}
    /\ waiter' = NoWaiter
    /\ calls' = << >>
    /\ outcome' = "TemplateError"
    /\ act' = "CreateInstanceTemplateError"
    /\ UNCHANGED otherOnly
    /\ UNCHANGED ghOnly
    /\ UNCHANGED <<pc, impl, cfg, tmpl, instances>>

\* create_instance(count), the provider rejecting the request: run_instances raises
CreateInstanceRejected(n) ==
    /\ pc = "idle"
    /\ ~substitute_raises(tmpl, userDataParams(impl, cfg))
    /\ op' = "create_instance"
    /\ count' = n
    /\ ids' = << >>
    /\ kwargs' = {}
    /\ waiter' = NoWaiter
    /\ calls' = <<[call |-> "run_instances",
                   args |-> run_instances_params(impl, cfg, n,
                               build_user_data(tmpl, userDataParams(impl, cfg)))]>>
    /\ outcome' = "ClientError"
    /\ act' = "CreateInstanceRejected"
    /\ UNCHANGED otherOnly
    /\ UNCHANGED ghOnly
    /\ UNCHANGED <<pc, impl, cfg, tmpl, instances>>

\* create_instance(count): params built, run_instances launches k instances,
\* their ids are returned
CreateInstance(n, k) ==
    /\ pc = "idle"
    /\ ~substitute_raises(tmpl, userDataParams(impl, cfg))
    /\ k \in Launchable(run_instances_params(impl, cfg, n,
                          build_user_data(tmpl, userDataParams(impl, cfg))))
    /\ op' = "create_instance"
    /\ count' = n
    /\ instances' = instances \o
          [j \in 1..k |->
              [state |-> "pending",
               user_data |-> run_instances_params(impl, cfg, n,
                               build_user_data(tmpl, userDataParams(impl, cfg)))["UserData"]]]
    /\ ids' = [j \in 1..k |-> Len(instances) + j]
    /\ kwargs' = {}
    /\ waiter' = NoWaiter
    /\ calls' = <<[call |-> "run_instances",
                   args |-> run_instances_params(impl, cfg, n,
                               build_user_data(tmpl, userDataParams(impl, cfg)))]>>
    /\ outcome' = "returned"
    /\ act' = "CreateInstance"
    /\ UNCHANGED otherOnly
    /\ UNCHANGED ghOnly
    /\ UNCHANGED <<pc, impl, cfg, tmpl>>

\* mutant of RemoveInstances: the termination request never reaches the provider
RemoveInstancesUnsent(L) ==
    /\ pc = "idle"
    /\ op' = "remove_instances"
    /\ ids' = L
    /\ count' = 0
    /\ kwargs' = {}
    /\ waiter' = NoWaiter
    /\ calls' = << >>
    /\ outcome' = "returned"
    /\ act' = "RemoveInstances"
    /\ UNCHANGED otherOnly
    /\ UNCHANGED ghOnly
    /\ UNCHANGED <<pc, impl, cfg, tmpl, instances>>

\* remove_instances(ids): ec2.terminate_instances(InstanceIds=ids)
RemoveInstances(L) ==
    /\ pc = "idle"
    /\ op' = "remove_instances"
    /\ ids' = L
    /\ instances' = [i \in 1..Len(instances) |->
                        IF i \in Range(L) /\ instances[i].state \in {"pending", "running"}
                        THEN [instances[i] EXCEPT !.state = "shutting-down"]
                        ELSE instances[i]]
    /\ count' = 0
    /\ kwargs' = {}
    /\ waiter' = NoWaiter
    /\ calls' = <<[call |-> "terminate_instances", InstanceIds |-> L]>>
    /\ outcome' = "returned"
    /\ act' = "RemoveInstances"
    /\ UNCHANGED otherOnly
    /\ UNCHANGED ghOnly
    /\ UNCHANGED <<pc, impl, cfg, tmpl>>

\* the attempts a waiter makes under a WaiterConfig
MaxAttemptsOf(config) ==
    IF \E p \in config : p[1] = "MaxAttempts"
    THEN (CHOOSE p \in config : p[1] = "MaxAttempts")[2]
    ELSE DefaultMaxAttempts

\* waiter.wait(InstanceIds=ids, WaiterConfig=config), a wait without
\* WaiterConfig being one with the empty config
WaitCallOf(name, L, config) ==
    [call |-> "wait", waiter |-> name, InstanceIds |-> L, WaiterConfig |-> config]

StartWaiter(name, config) ==
    [name |-> name, max |-> MaxAttemptsOf(config), attempts |-> 0]

\* the state a waiter waits for
Target(name) == IF name = "instance_running" THEN "running" ELSE "terminated"

\* one poll of the waiter: every instance in the target state, or the attempts
\* used up, or another attempt after the delay
PollResult(w, L) ==
    IF \A i \in Range(L) : instances[i].state = Target(w.name) THEN "success"
    ELSE IF w.attempts + 1 >= w.max THEN "timeout"
    ELSE "retry"

\* ec2.get_waiter("instance_running")
ReadyWaiterName == "instance_running"

\* if kwargs: WaiterConfig=kwargs, else no WaiterConfig
ConfigOf(kw) == IF kw # {} THEN kw ELSE {}

\* mutant of ReadyConfigOf: the poll options are dropped
ReadyConfigDropped(kw) == {}

ReadyConfigOf(kw) == ConfigOf(kw)

\* wait_until_ready(ids, **kwargs): the waiter is started
WaitUntilReadyCall(L, kw) ==
    /\ pc = "idle"
    /\ op' = "wait_until_ready"
    /\ ids' = L
    /\ kwargs' = kw
    /\ count' = 0
    /\ waiter' = StartWaiter(ReadyWaiterName, ReadyConfigOf(kw))
    /\ calls' = <<WaitCallOf(ReadyWaiterName, L, ReadyConfigOf(kw))>>
    /\ outcome' = "none"
    /\ pc' = "ready_wait"
    /\ act' = "WaitUntilReadyCall"
    /\ UNCHANGED otherOnly
    /\ UNCHANGED ghOnly
    /\ UNCHANGED <<impl, cfg, tmpl, instances>>

\* wait_until_ready: the waiter polls; the call returns when the waiter does
\* and raises when the waiter gives up
WaitUntilReadyPoll ==
    /\ pc = "ready_wait"
    /\ waiter' = [waiter EXCEPT !.attempts = @ + 1]
    /\ CASE PollResult(waiter, ids) = "success" -> pc' = "idle" /\ outcome' = "returned"
         [] PollResult(waiter, ids) = "timeout" -> pc' = "idle" /\ outcome' = "WaiterError"
         [] OTHER -> pc' = "ready_wait" /\ outcome' = "none"
    /\ act' = "WaitUntilReadyPoll"
    /\ UNCHANGED otherOnly
    /\ UNCHANGED ghOnly
    /\ UNCHANGED <<op, impl, cfg, tmpl, instances, count, ids, kwargs, calls>>

\* wait_until_removed(ids, **kwargs): waiter.wait(InstanceIds=ids) comes first
WaitUntilRemovedCall(L, kw) ==
    /\ pc = "idle"
    /\ op' = "wait_until_removed"
    /\ ids' = L
    /\ kwargs' = kw
    /\ count' = 0
    /\ waiter' = StartWaiter("instance_terminated", {})
    /\ calls' = <<WaitCallOf("instance_terminated", L, {})>>
    /\ outcome' = "none"
    /\ pc' = "removed_wait_first"
    /\ act' = "WaitUntilRemovedCall"
    /\ UNCHANGED otherOnly
    /\ UNCHANGED ghOnly
    /\ UNCHANGED <<impl, cfg, tmpl, instances>>

\* wait_until_removed: the first wait polls; when it returns the second wait,
\* with the poll options if any, is started
WaitUntilRemovedFirstPoll ==
    /\ pc = "removed_wait_first"
    /\ CASE PollResult(waiter, ids) = "success" ->
              /\ waiter' = StartWaiter("instance_terminated", ConfigOf(kwargs))
              /\ calls' = Append(calls, WaitCallOf("instance_terminated", ids, ConfigOf(kwargs)))
              /\ pc' = "removed_wait_second"
              /\ outcome' = "none"
         [] PollResult(waiter, ids) = "timeout" ->
              /\ waiter' = [waiter EXCEPT !.attempts = @ + 1]
              /\ calls' = calls
              /\ pc' = "idle"
              /\ outcome' = "WaiterError"
         [] OTHER ->
              /\ waiter' = [waiter EXCEPT !.attempts = @ + 1]
              /\ calls' = calls
              /\ pc' = "removed_wait_first"
              /\ outcome' = "none"
    /\ act' = "WaitUntilRemovedFirstPoll"
    /\ UNCHANGED otherOnly
    /\ UNCHANGED ghOnly
    /\ UNCHANGED <<op, impl, cfg, tmpl, instances, count, ids, kwargs>>

\* wait_until_removed: the second wait polls; the call returns when it does
WaitUntilRemovedSecondPoll ==
    /\ pc = "removed_wait_second"
    /\ waiter' = [waiter EXCEPT !.attempts = @ + 1]
    /\ CASE PollResult(waiter, ids) = "success" -> pc' = "idle" /\ outcome' = "returned"
         [] PollResult(waiter, ids) = "timeout" -> pc' = "idle" /\ outcome' = "WaiterError"
         [] OTHER -> pc' = "removed_wait_second" /\ outcome' = "none"
    /\ act' = "WaitUntilRemovedSecondPoll"
    /\ UNCHANGED otherOnly
    /\ UNCHANGED ghOnly
    /\ UNCHANGED <<op, impl, cfg, tmpl, instances, count, ids, kwargs, calls>>

(***************************************************************************)
(* Provider factory                                                        *)
(***************************************************************************)
\* the name of the home directory field (clouddeployment.py / interface.py)
HomeField(im) == IF im = "clouddeployment" THEN "home_dir" ELSE "homedir"

\* the dataclass fields without a default, and those with the default ""
RequiredFields(im) ==
    {"image_id", "instance_type", "gh_runner_token", HomeField(im), "repo",
     "tags", "region_name", ReleaseKey(im)}

DefaultedFields == {"labels", "subnet_id", "security_group_id", "iam_role", "script"}

\* mutant of init_raises: keywords that are no field are let through
init_raises_missing_only(im, kw) == RequiredFields(im) \ DOMAIN kw # {}

\* AWS(**kwargs) raises TypeError: a field without default is not given, or a
\* keyword is no field
init_raises(im, kw) ==
    \/ RequiredFields(im) \ DOMAIN kw # {}
    \/ DOMAIN kw \ (RequiredFields(im) \cup DefaultedFields) # {}

\* what the TypeError of AWS(**kwargs) is about
init_error(im, kw) ==
    [missing |-> RequiredFields(im) \ DOMAIN kw,
     unexpected |-> DOMAIN kw \ (RequiredFields(im) \cup DefaultedFields)]

NoCause == [missing |-> {}, unexpected |-> {}]

NoError == [text |-> "", provider |-> "", cause |-> NoCause]

\* a field's value: the keyword's, or the default ""
FieldOf(kw, k) == IF k \in DOMAIN kw THEN kw[k] ELSE ""

\* AWS(**kwargs), the object constructed
AWS(im, kw) ==
    [image_id |-> kw["image_id"], instance_type |-> kw["instance_type"],
     gh_runner_token |-> kw["gh_runner_token"], home_dir |-> kw[HomeField(im)],
     repo |-> kw["repo"], tags |-> kw["tags"], region_name |-> kw["region_name"],
     runner_release |-> kw[ReleaseKey(im)], labels |-> FieldOf(kw, "labels"),
     subnet_id |-> FieldOf(kw, "subnet_id"),
     security_group_id |-> FieldOf(kw, "security_group_id"),
     iam_role |-> FieldOf(kw, "iam_role"), script |-> FieldOf(kw, "script")]

\* get_provider(provider_name, **kwargs)
GetProvider(nm, kw) ==
    /\ pc = "idle"
    /\ op' = "get_provider"
    /\ provider_name' = nm
    /\ given' = kw
    /\ IF nm \notin DOMAIN providers
       THEN /\ outcome' = "ValueError"
            /\ message' = [NoError EXCEPT !.text = "Invalid provider name"]
            /\ cfg' = cfg
       ELSE IF init_raises(impl, kw)
       THEN /\ outcome' = "TypeError"
            /\ message' = [text |-> "Invalid configuration for provider",
                           provider |-> nm, cause |-> init_error(impl, kw)]
            /\ cfg' = cfg
       ELSE /\ outcome' = "returned"
            /\ message' = NoError
            /\ cfg' = AWS(impl, kw)
    /\ act' = "GetProvider"
    /\ UNCHANGED ghOnly
    /\ UNCHANGED <<tokenOnly, releaseOnly>>
    /\ UNCHANGED <<pc, impl, tmpl, instances, count, ids, kwargs, waiter, calls,
                   providers, rendered>>

(***************************************************************************)
(* Initial values of what a specification does not exercise                *)
(***************************************************************************)
\* providers = {"aws": AWS}
ProviderClasses == [aws |-> "AWS"]

NoAssets == << >>

FactoryIdle ==
    /\ providers = ProviderClasses
    /\ provider_name = ""
    /\ given = NoArguments
    /\ message = NoError
    /\ rendered = NoArguments

TokenIdle ==
    /\ tokens = << >>
    /\ minted = << >>
    /\ nextToken = 1

ReleaseIdle ==
    /\ assets = NoAssets
    /\ platform = << >>
    /\ architecture = << >>
    /\ url = NoUrl

OtherIdle == FactoryIdle /\ TokenIdle /\ ReleaseIdle

(***************************************************************************)
(* Specification of the registry client                                    *)
(***************************************************************************)
InitRegistry ==
    /\ runners = << >>
    /\ nextRunnerId = 1
    /\ pc = "idle"
    /\ op = "none"
    /\ label = "a"
    /\ runner = None
    /\ matched = NoRunners
    /\ reqLog = << >>
    /\ outcome = "none"
    /\ lastEv = "none"
    /\ act = "Init"
    /\ impl = "clouddeployment"
    /\ cfg = Config("", "", "")
    /\ tmpl = TemplateSnake
    /\ instances = << >>
    /\ count = 0
    /\ ids = << >>
    /\ kwargs = {}
    /\ waiter = NoWaiter
    /\ calls = << >>
    /\ OtherIdle

NextRegistry ==
    \/ \E ls \in SUBSET Labels : RegisterRunner(ls)
    \/ \E id \in 1..MaxRunnerId : DeregisterRunner(id)
    \/ \E l \in Labels : GetRunner(l)
    \/ \E l \in Labels : GetRunners(l)
    \/ \E l \in Labels : WaitCall(l)
    \/ WaitCheck
    \/ WaitSleep
    \/ WaitReturn
    \/ \E l \in Labels : RemoveRunnerCall(l)
    \/ \E ok \in BOOLEAN : RemoveRunnerRequest(ok)
    \/ \E l \in Labels : RemoveRunnersCall(l)
    \/ \E ok \in BOOLEAN : RemoveRunnersRequest(ok)

SpecRegistry == InitRegistry /\ [][NextRegistry]_vars

\* the polling loop keeps running while the call is in progress
FairRegistry ==
    SpecRegistry /\ WF_vars(WaitCheck) /\ WF_vars(WaitSleep) /\ WF_vars(WaitReturn)

(***************************************************************************)
(* Specification of the AWS provider                                       *)
(***************************************************************************)
\* poll options a caller passes: none, a Delay only, or a MaxAttempts
PollOptions ==
    {{}, {<<"Delay", 1>>}} \cup {{<<"MaxAttempts", n>>} : n \in 1..MaxPollOption}

InitProvider ==
    /\ runners = << >>
    /\ nextRunnerId = 1
    /\ pc = "idle"
    /\ op = "none"
    /\ label = "a"
    /\ runner = None
    /\ matched = NoRunners
    /\ reqLog = << >>
    /\ outcome = "none"
    /\ lastEv = "none"
    /\ act = "Init"
    /\ impl \in {"clouddeployment", "interface"}
    /\ cfg = Config("", "", "")
    /\ tmpl \in {TemplateSnake, TemplateCamel}
    /\ instances = << >>
    /\ count = 0
    /\ ids = << >>
    /\ kwargs = {}
    /\ waiter = NoWaiter
    /\ calls = << >>
    /\ OtherIdle

NextProvider ==
    \/ \E i \in 1..MaxInstances : InstanceProgress(i)
    \/ \E n \in 1..MaxInstances : CreateInstanceTemplateError(n)
    \/ \E n \in 1..MaxInstances : CreateInstanceRejected(n)
    \/ \E n \in 1..MaxInstances, k \in 1..MaxInstances : CreateInstance(n, k)
    \/ \E S \in SUBSET (1..Len(instances)) : S # {} /\ RemoveInstances(IdList(S))
    \/ \E S \in SUBSET (1..Len(instances)), kw \in PollOptions :
          S # {} /\ WaitUntilReadyCall(IdList(S), kw)
    \/ WaitUntilReadyPoll
    \/ \E S \in SUBSET (1..Len(instances)), kw \in PollOptions :
          S # {} /\ WaitUntilRemovedCall(IdList(S), kw)
    \/ WaitUntilRemovedFirstPoll
    \/ WaitUntilRemovedSecondPoll

SpecProvider == InitProvider /\ [][NextProvider]_vars

(***************************************************************************)
(* Specification of instance creation, over every provider configuration   *)
(***************************************************************************)
InitRequest ==
    /\ runners = << >>
    /\ nextRunnerId = 1
    /\ pc = "idle"
    /\ op = "none"
    /\ label = "a"
    /\ runner = None
    /\ matched = NoRunners
    /\ reqLog = << >>
    /\ outcome = "none"
    /\ lastEv = "none"
    /\ act = "Init"
    /\ impl \in {"clouddeployment", "interface"}
    /\ \E subnet \in {"", "subnet-1"}, sg \in {"", "sg-1"}, role \in {"", "role-1"} :
          cfg = Config(subnet, sg, role)
    /\ tmpl \in {TemplateSnake, TemplateCamel}
    /\ instances = << >>
    /\ count = 0
    /\ ids = << >>
    /\ kwargs = {}
    /\ waiter = NoWaiter
    /\ calls = << >>
    /\ OtherIdle

NextRequest ==
    \/ \E i \in 1..MaxInstances : InstanceProgress(i)
    \/ \E n \in 1..MaxInstances : CreateInstanceTemplateError(n)
    \/ \E n \in 1..MaxInstances : CreateInstanceRejected(n)
    \/ \E n \in 1..MaxInstances, k \in 1..MaxInstances : CreateInstance(n, k)
    \/ \E S \in SUBSET (1..Len(instances)) : S # {} /\ RemoveInstances(IdList(S))

SpecRequest == InitRequest /\ [][NextRequest]_vars

(***************************************************************************)
(* The lifecycle create_instance(2) -> wait_until_ready(ids) ->            *)
(* remove_instances(ids) -> wait_until_removed(ids) on a provider that     *)
(* accepts the request and brings the instances to the state waited for    *)
(* before the waiter's attempts are used up                                *)
(***************************************************************************)
\* the template has the placeholders the AWS class passes
TemplateOf(im) == IF im = "clouddeployment" THEN TemplateSnake ELSE TemplateCamel

InitLifecycle ==
    /\ runners = << >>
    /\ nextRunnerId = 1
    /\ pc = "idle"
    /\ op = "none"
    /\ label = "a"
    /\ runner = None
    /\ matched = NoRunners
    /\ reqLog = << >>
    /\ outcome = "none"
    /\ lastEv = "none"
    /\ act = "Init"
    /\ impl \in {"clouddeployment", "interface"}
    /\ cfg = Config("", "", "")
    /\ tmpl = TemplateOf(impl)
    /\ instances = << >>
    /\ count = 0
    /\ ids = << >>
    /\ kwargs = {}
    /\ waiter = NoWaiter
    /\ calls = << >>
    /\ OtherIdle

LifecycleCreate ==
    /\ op = "none"
    /\ CreateInstance(2, 2)

LifecycleWaitReady ==
    /\ op = "create_instance"
    /\ outcome = "returned"
    /\ \E kw \in PollOptions : WaitUntilReadyCall(ids, kw)

\* the provider is in time: the poll that would give up does not come before
\* the instances are running
LifecycleReadyPoll ==
    /\ PollResult(waiter, ids) # "timeout"
    /\ WaitUntilReadyPoll

LifecycleRemove ==
    /\ op = "wait_until_ready"
    /\ outcome = "returned"
    /\ RemoveInstances(ids)

LifecycleWaitRemoved ==
    /\ op = "remove_instances"
    /\ outcome = "returned"
    /\ \E kw \in PollOptions : WaitUntilRemovedCall(ids, kw)

LifecycleRemovedFirstPoll ==
    /\ PollResult(waiter, ids) # "timeout"
    /\ WaitUntilRemovedFirstPoll

LifecycleRemovedSecondPoll ==
    /\ PollResult(waiter, ids) # "timeout"
    /\ WaitUntilRemovedSecondPoll

NextLifecycle ==
    \/ \E i \in 1..MaxInstances : InstanceProgress(i)
    \/ LifecycleCreate
    \/ LifecycleWaitReady
    \/ LifecycleReadyPoll
    \/ LifecycleRemove
    \/ LifecycleWaitRemoved
    \/ LifecycleRemovedFirstPoll
    \/ LifecycleRemovedSecondPoll

\* the caller goes through its steps, the waiters keep polling and the
\* provider keeps working on its instances
FairLifecycle ==
    /\ InitLifecycle
    /\ [][NextLifecycle]_vars
    /\ \A i \in 1..MaxInstances : WF_vars(InstanceProgress(i))
    /\ WF_vars(LifecycleCreate)
    /\ WF_vars(LifecycleWaitReady)
    /\ WF_vars(LifecycleReadyPoll)
    /\ WF_vars(LifecycleRemove)
    /\ WF_vars(LifecycleWaitRemoved)
    /\ WF_vars(LifecycleRemovedFirstPoll)
    /\ WF_vars(LifecycleRemovedSecondPoll)

(***************************************************************************)
(* Specification of the provider factory                                   *)
(***************************************************************************)
\* the value a caller gives a keyword
ArgumentValue(k) ==
    CASE k = "image_id" -> "ami-1"
      [] k = "instance_type" -> "t2.micro"
      [] k = "gh_runner_token" -> "token-1"
      [] k \in {"home_dir", "homedir"} -> "/home/ec2-user"
      [] k = "repo" -> "owner/repo"
      [] k = "tags" -> << >>
      [] k = "region_name" -> "us-east-1"
      [] k \in {"runner_release", "runnerRelease"} -> "release-url"
      [] k = "labels" -> "runner-1"
      [] k = "subnet_id" -> "subnet-1"
      [] OTHER -> "x"

\* keyword arguments a caller passes: all required fields or some left out,
\* some fields with a default, possibly a keyword that is no field (among them
\* the other class's name of the home directory), one of two images
FactoryArguments(im) ==
    {[k \in ((RequiredFields(im) \ drop) \cup opt \cup extra) |->
         IF k = "image_id" THEN img ELSE ArgumentValue(k)] :
       drop \in SUBSET {"image_id", HomeField(im)},
       opt \in SUBSET {"labels", "subnet_id"},
       extra \in {{}, {"bogus"}, {"home_dir", "homedir"} \ {HomeField(im)}},
       img \in {"ami-1", "ami-2"}}

InitFactory ==
    /\ runners = << >>
    /\ nextRunnerId = 1
    /\ pc = "idle"
    /\ op = "none"
    /\ label = "a"
    /\ runner = None
    /\ matched = NoRunners
    /\ reqLog = << >>
    /\ outcome = "none"
    /\ lastEv = "none"
    /\ act = "Init"
    /\ impl \in {"clouddeployment", "interface"}
    /\ cfg = Config("", "", "")
    /\ tmpl = TemplateOf(impl)
    /\ instances = << >>
    /\ count = 0
    /\ ids = << >>
    /\ kwargs = {}
    /\ waiter = NoWaiter
    /\ calls = << >>
    /\ OtherIdle

NextFactory ==
    \E nm \in {"aws", "gcp", ""}, kw \in FactoryArguments(impl) : GetProvider(nm, kw)

SpecFactory == InitFactory /\ [][NextFactory]_vars

(***************************************************************************)
(* Specification of the registration tokens                                *)
(***************************************************************************)
NextTokens ==
    \/ \E n \in 0..MaxTokens : CreateRunnerTokensCall(n)
    \/ \E resp \in MintResponses : CreateRunnerToken(resp)

SpecTokens == InitRegistry /\ [][NextTokens]_vars

(***************************************************************************)
(* Specification of the runner release lookup                              *)
(***************************************************************************)
\* names of release assets, and platforms and architectures asked for, as
\* sequences of pieces: "linux-arm64" has the architectures "arm" and "arm64"
\* in it, but not "64x"
AssetNames ==
    { <<"linux", "x", "64">>, <<"linux", "arm", "64">>,
      <<"win", "x", "64">>, <<"linux", "arm">> }

Platforms == { <<"linux">>, <<"win">>, <<"osx">>, << >> }

Architectures == { <<"x", "64">>, <<"arm">>, <<"arm", "64">>, <<"64", "x">> }

\* the i-th asset of a release; download URLs are distinct
Asset(n, i) == [name |-> n, browser_download_url |-> <<"download", i>>]

Releases ==
    UNION { { [i \in 1..k |-> Asset(ns[i], i)] : ns \in [1..k -> AssetNames] }
            : k \in 0..MaxAssets }

InitRelease ==
    /\ runners = << >>
    /\ nextRunnerId = 1
    /\ pc = "idle"
    /\ op = "none"
    /\ label = "a"
    /\ runner = None
    /\ matched = NoRunners
    /\ reqLog = << >>
    /\ outcome = "none"
    /\ lastEv = "none"
    /\ act = "Init"
    /\ impl = "clouddeployment"
    /\ cfg = Config("", "", "")
    /\ tmpl = TemplateSnake
    /\ instances = << >>
    /\ count = 0
    /\ ids = << >>
    /\ kwargs = {}
    /\ waiter = NoWaiter
    /\ calls = << >>
    /\ FactoryIdle
    /\ TokenIdle
    /\ assets \in Releases
    /\ platform = << >>
    /\ architecture = << >>
    /\ url = NoUrl

NextRelease ==
    \E p \in Platforms, a \in Architectures : GetLatestRunnerRelease(p, a)

SpecRelease == InitRelease /\ [][NextRelease]_vars

(***************************************************************************)
(* Specification of the script rendering                                   *)
(***************************************************************************)
\* keyword arguments a caller passes: the placeholders the two templates
\* share or some left out, the release under either name, both or none,
\* possibly a keyword that is no placeholder, one of two tokens
UserDataArguments ==
    {[k \in (((TemplateSnake \cap TemplateCamel) \ drop) \cup release \cup extra) |->
         IF k = "token" THEN tok ELSE ArgumentValue(k)] :
       drop \in SUBSET {"token", "labels"},
       release \in SUBSET {"runner_release", "runnerRelease"},
       extra \in SUBSET {"bogus"},
       tok \in {"token-1", "token-2"}}

NextTemplate == \E kw \in UserDataArguments : BuildUserData(kw)

SpecTemplate == InitProvider /\ [][NextTemplate]_vars

(***************************************************************************)
(* Specification of the two provider classes, each with its template       *)
(***************************************************************************)
InitClasses ==
    /\ runners = << >>
    /\ nextRunnerId = 1
    /\ pc = "idle"
    /\ op = "none"
    /\ label = "a"
    /\ runner = None
    /\ matched = NoRunners
    /\ reqLog = << >>
    /\ outcome = "none"
    /\ lastEv = "none"
    /\ act = "Init"
    /\ impl \in {"clouddeployment", "interface"}
    /\ \E subnet \in {"", "subnet-1"}, sg \in {"", "sg-1"}, role \in {"", "role-1"} :
          cfg = Config(subnet, sg, role)
    /\ tmpl = TemplateOf(impl)
    /\ instances = << >>
    /\ count = 0
    /\ ids = << >>
    /\ kwargs = {}
    /\ waiter = NoWaiter
    /\ calls = << >>
    /\ OtherIdle

\* the calls of one lifecycle in their order, with any count and any poll
\* options: create_instance, wait_until_ready on the ids it returned (whether
\* or not that wait times out), remove_instances, wait_until_removed
NextClasses ==
    \/ \E i \in 1..MaxInstances : InstanceProgress(i)
    \/ \E n \in 1..MaxInstances : op = "none" /\ CreateInstanceRejected(n)
    \/ \E n \in 1..MaxInstances, k \in 1..MaxInstances :
          op = "none" /\ CreateInstance(n, k)
    \/ \E kw \in PollOptions :
          op = "create_instance" /\ outcome = "returned" /\ WaitUntilReadyCall(ids, kw)
    \/ WaitUntilReadyPoll
    \/ op = "wait_until_ready" /\ RemoveInstances(ids)
    \/ \E kw \in PollOptions :
          op = "remove_instances" /\ WaitUntilRemovedCall(ids, kw)
    \/ WaitUntilRemovedFirstPoll
    \/ WaitUntilRemovedSecondPoll

SpecClasses == InitClasses /\ [][NextClasses]_vars

(***************************************************************************)
(* Properties of the registry client                                       *)
(***************************************************************************)
\* positions in the listing of the runners whose label set contains l
Carriers(rs, l) == {i \in 1..Len(rs) : l \in rs[i].labels}

First(S) == CHOOSE i \in S : \A j \in S : i <= j

C3_CheckSleepAlternation ==
    [][ /\ act' = "WaitCheck" => lastEv = "sleep"
        /\ act' = "WaitSleep" => (lastEv = "check" /\ runner = None)
        /\ act' = "WaitReturn" => lastEv = "check"
      ]_vars

\* C4: wait_for_runner returns only after one of its checks returned a runner
\* carrying the label; with the polling loop kept running, a call waiting for a
\* label returns once a runner carrying it is registered for good; and while no
\* runner ever carries the label no call for it ends, with any outcome.
C4_WaitReturnsIffObserved ==
    /\ []((op = "wait_for_runner" /\ outcome # "none")
             => (outcome = "returned" /\ runner # None /\ label \in runner.labels))
    /\ \A l \in Labels :
          (<>[](Carriers(runners, l) # {}))
             => []((op = "wait_for_runner" /\ label = l /\ pc # "idle")
                      => <>(op = "wait_for_runner" /\ label = l /\ pc = "idle"
                            /\ outcome = "returned"))
    /\ \A l \in Labels :
          ([](Carriers(runners, l) = {}))
             => [](op = "wait_for_runner" /\ label = l => outcome = "none")

\* C4 witness: the call returned after polling (the runner registered while it
\* waited)
C4_Witness ==
    /\ act = "WaitReturn"
    /\ lastEv = "sleep"
    /\ outcome = "returned"

\* C9: get_runner and get_runners return (never raise); the result is absent
\* exactly when no registered runner's label set contains the label, otherwise
\* get_runner returns the first listed runner carrying it and get_runners all
\* runners carrying it, in listing order, and no others; the registry is
\* unchanged.
C9_Lookups ==
    [][ /\ act' = "GetRunner"
            => /\ runners' = runners
               /\ outcome' = "returned"
               /\ runner' = None <=> Carriers(runners, label') = {}
               /\ Carriers(runners, label') # {}
                     => runner' = runners[First(Carriers(runners, label'))]
        /\ act' = "GetRunners"
            => /\ runners' = runners
               /\ outcome' = "returned"
               /\ matched' = NoRunners <=> Carriers(runners, label') = {}
               /\ Len(matched') = Cardinality(Carriers(runners, label'))
               /\ \A j \in 1..Len(matched') :
                     /\ label' \in matched'[j].labels
                     /\ Registered(runners, matched'[j].id)
               /\ \A j, k \in 1..Len(matched') :
                     j < k => matched'[j].id < matched'[k].id
      ]_vars

\* C9 witness: get_runner returned the first of two runners carrying the label,
\* listed after a runner that does not carry it
C9_Witness ==
    /\ act = "GetRunner"
    /\ runner # None
    /\ Cardinality(Carriers(runners, label)) = 2
    /\ 1 \notin Carriers(runners, label)

(***************************************************************************)
(* Properties of the AWS provider                                          *)
(***************************************************************************)
\* C5, as claimed: wait_until_removed runs the instance_terminated waiter on
\* ids exactly once, with the caller's poll options as its configuration (the
\* default configuration when there are none), so it times out only after the
\* caller's number of attempts.
C5_RemovedWaitsOnce ==
    (op = "wait_until_removed" /\ pc = "idle")
       => /\ calls = <<WaitCallOf("instance_terminated", ids, kwargs)>>
          /\ outcome = "WaiterError" => waiter.attempts = MaxAttemptsOf(kwargs)

\* C6, as claimed: the instances one create_instance call returned carry
\* pairwise different runner labels and pairwise different registration tokens
\* in their bootstrap data.
C6_OneLabelPerInstance ==
    (act = "CreateInstance" /\ outcome = "returned")
       => \A i, j \in Range(ids) :
             i # j => /\ instances[i].user_data["labels"] # instances[j].user_data["labels"]
                      /\ instances[i].user_data["token"] # instances[j].user_data["token"]

\* C7: create_instance(N) sends one request with MinCount = MaxCount = N; it
\* returns exactly N pairwise distinct ids, of instances this request launched,
\* or fails with no id returned and no instance launched; the object's fields
\* are unchanged either way.
C7_ExactlyN ==
    [][ act' \in {"CreateInstance", "CreateInstanceRejected", "CreateInstanceTemplateError"}
          => /\ cfg' = cfg
             /\ Len(calls') <= 1
             /\ outcome' \in {"returned", "ClientError"}
                   => /\ Len(calls') = 1
                      /\ calls'[1].call = "run_instances"
                      /\ calls'[1].args["MinCount"] = count'
                      /\ calls'[1].args["MaxCount"] = count'
             /\ outcome' = "returned"
                   => /\ Len(ids') = count'
                      /\ \A i, j \in 1..Len(ids') : i # j => ids'[i] # ids'[j]
                      /\ Range(ids') = (1..Len(instances')) \ (1..Len(instances))
             /\ outcome' # "returned"
                   => /\ ids' = << >>
                      /\ instances' = instances
      ]_vars

\* C7 witness: create_instance(2) returned two ids
C7_Witness ==
    /\ act = "CreateInstance"
    /\ outcome = "returned"
    /\ count = 2
    /\ Len(ids) = 2

OptionalKeys == {"SubnetId", "SecurityGroupIds", "IamInstanceProfile"}

\* C8: the request built for create_instance has the mandatory keys, and has
\* SubnetId (SecurityGroupIds, IamInstanceProfile) exactly when subnet_id
\* (security_group_id, iam_role) is not empty, then carrying the configured
\* value; no other key is sent.
C8_OptionalKeys ==
    act \in {"CreateInstance", "CreateInstanceRejected"}
       => /\ MandatoryKeys \subseteq DOMAIN calls[1].args
          /\ DOMAIN calls[1].args \subseteq MandatoryKeys \cup OptionalKeys
          /\ "SubnetId" \in DOMAIN calls[1].args <=> cfg.subnet_id # ""
          /\ "SecurityGroupIds" \in DOMAIN calls[1].args <=> cfg.security_group_id # ""
          /\ "IamInstanceProfile" \in DOMAIN calls[1].args <=> cfg.iam_role # ""
          /\ cfg.subnet_id # "" => calls[1].args["SubnetId"] = cfg.subnet_id
          /\ cfg.security_group_id # ""
                => calls[1].args["SecurityGroupIds"] = <<cfg.security_group_id>>
          /\ cfg.iam_role # ""
                => calls[1].args["IamInstanceProfile"] = [Name |-> cfg.iam_role]
          /\ calls[1].args["ImageId"] = cfg.image_id
          /\ calls[1].args["InstanceType"] = cfg.instance_type
          /\ calls[1].args["TagSpecifications"] = cfg.tags

\* C8 witness: a request sent with a subnet and a role configured and no
\* security group, by the AWS class of interface.py
C8_Witness ==
    /\ act = "CreateInstance"
    /\ impl = "interface"
    /\ cfg.subnet_id # ""
    /\ cfg.security_group_id = ""
    /\ cfg.iam_role # ""
    /\ DOMAIN calls[1].args = MandatoryKeys \cup {"SubnetId", "IamInstanceProfile"}

\* C10: wait_until_ready runs the instance_running waiter once on the whole id
\* list, with the caller's poll options as its configuration (the default when
\* there are none); it returns normally only when a poll found every id
\* running, and otherwise raises the waiter's error after as many polls as the
\* configuration allows.
C10_ReadyBatch ==
    /\ op = "wait_until_ready"
          => calls = <<WaitCallOf("instance_running", ids, kwargs)>>
    /\ (op = "wait_until_ready" /\ pc = "idle")
          => /\ outcome \in {"returned", "WaiterError"}
             /\ outcome = "WaiterError" => waiter.attempts = MaxAttemptsOf(kwargs)
             /\ outcome = "returned" => waiter.attempts <= MaxAttemptsOf(kwargs)
    /\ (act = "WaitUntilReadyPoll" /\ outcome = "returned")
          => \A i \in Range(ids) : instances[i].state = "running"
    /\ (act = "WaitUntilReadyPoll" /\ outcome = "WaiterError")
          => \E i \in Range(ids) : instances[i].state # "running"

\* C10 witness: a wait on two ids with MaxAttempts = 2 returned at its second
\* poll
C10_Witness ==
    /\ act = "WaitUntilReadyPoll"
    /\ outcome = "returned"
    /\ Len(ids) = 2
    /\ kwargs = {<<"MaxAttempts", 2>>}
    /\ waiter.attempts = 2

(***************************************************************************)
(* Properties of the lifecycle                                             *)
(***************************************************************************)
\* the operations of the lifecycle, in order
LifecycleStep(o) ==
    CASE o = "none" -> 0
      [] o = "create_instance" -> 1
      [] o = "wait_until_ready" -> 2
      [] o = "remove_instances" -> 3
      [] OTHER -> 4

\* C11: in the lifecycle create_instance(2), wait_until_ready(ids),
\* remove_instances(ids), wait_until_removed(ids), with no optional field set
\* and a provider that is in time, the steps return without error one after
\* the other in that order, wait_until_ready returns with both instances
\* running, and wait_until_removed eventually returns, with both created
\* instances terminated.
C11_LifecycleCompletes ==
    /\ [](outcome \in {"none", "returned"})
    /\ [][op' # op => LifecycleStep(op') = LifecycleStep(op) + 1]_vars
    /\ []((op = "wait_until_ready" /\ pc = "idle")
             => \A i \in Range(ids) : instances[i].state = "running")
    /\ \A o \in {"create_instance", "wait_until_ready", "remove_instances",
                 "wait_until_removed"} :
          <>(op = o /\ pc = "idle" /\ outcome = "returned")
    /\ <>[](/\ op = "wait_until_removed"
            /\ pc = "idle"
            /\ outcome = "returned"
            /\ Len(ids) = 2
            /\ Len(instances) = 2
            /\ \A i \in Range(ids) : instances[i].state = "terminated")

\* C11 witness: wait_until_removed returned at the end of the lifecycle, both
\* instances terminated
C11_Witness ==
    /\ op = "wait_until_removed"
    /\ pc = "idle"
    /\ outcome = "returned"
    /\ Len(ids) = 2
    /\ \A i \in Range(ids) : instances[i].state = "terminated"

(***************************************************************************)
(* Properties of the provider factory                                      *)
(***************************************************************************)
\* C12: get_provider(name, **config) raises "Invalid provider name" and
\* constructs nothing for a name that is not in the provider mapping; for a
\* known name with a required field missing or a keyword that is no field it
\* raises the configuration error naming the provider and carrying the
\* original failure; for a known name and a valid configuration it returns a
\* provider whose fields are the values supplied (the default "" for a
\* defaulted field left out).  The mapping is unchanged in all three cases.
C12_GetProvider ==
    [][ act' = "GetProvider"
          => /\ providers' = providers
             /\ provider_name' # "aws"
                   => /\ outcome' = "ValueError"
                      /\ message'.text = "Invalid provider name"
                      /\ cfg' = cfg
             /\ (/\ provider_name' = "aws"
                 /\ \/ \E k \in RequiredFields(impl) : k \notin DOMAIN given'
                    \/ \E k \in DOMAIN given' :
                          k \notin RequiredFields(impl) \cup DefaultedFields)
                   => /\ outcome' = "TypeError"
                      /\ message'.text = "Invalid configuration for provider"
                      /\ message'.provider = provider_name'
                      /\ message'.cause.missing = RequiredFields(impl) \ DOMAIN given'
                      /\ message'.cause.unexpected =
                            DOMAIN given' \ (RequiredFields(impl) \cup DefaultedFields)
                      /\ cfg' = cfg
             /\ (/\ provider_name' = "aws"
                 /\ RequiredFields(impl) \subseteq DOMAIN given'
                 /\ DOMAIN given' \subseteq RequiredFields(impl) \cup DefaultedFields)
                   => /\ outcome' = "returned"
                      /\ cfg'.image_id = given'["image_id"]
                      /\ cfg'.instance_type = given'["instance_type"]
                      /\ cfg'.gh_runner_token = given'["gh_runner_token"]
                      /\ cfg'.home_dir = given'[HomeField(impl)]
                      /\ cfg'.repo = given'["repo"]
                      /\ cfg'.tags = given'["tags"]
                      /\ cfg'.region_name = given'["region_name"]
                      /\ cfg'.runner_release = given'[ReleaseKey(impl)]
                      /\ \A k \in DefaultedFields :
                            cfg'[k] = IF k \in DOMAIN given' THEN given'[k] ELSE ""
      ]_vars

\* C12 witness: a provider constructed from a configuration with a subnet and
\* the second image, after the provider held before had the first
C12_Witness ==
    /\ act = "GetProvider"
    /\ outcome = "returned"
    /\ DOMAIN given = RequiredFields(impl) \cup {"subnet_id"}
    /\ cfg.image_id = "ami-2"
    /\ cfg.subnet_id = "subnet-1"

Both ==
    { i \in 1..Len(assets) :
        /\ \E j \in 0..Len(assets[i].name) :
              \E k \in j..Len(assets[i].name) :
                 SubSeq(assets[i].name, j + 1, k) = platform
        /\ \E j \in 0..Len(assets[i].name) :
              \E k \in j..Len(assets[i].name) :
                 SubSeq(assets[i].name, j + 1, k) = architecture }

\* C14: get_latest_runner_release(platform, architecture) returns the
\* download URL of the first asset, in listing order, whose name contains both
\* the platform and the architecture, and raises RuntimeError exactly when no
\* asset name contains both.
C14_FirstMatchingAsset ==
    act = "GetLatestRunnerRelease"
       => /\ outcome \in {"returned", "RuntimeError"}
          /\ outcome = "RuntimeError" <=> Both = {}
          /\ outcome = "RuntimeError" => url = NoUrl
          /\ outcome = "returned"
                => \E i \in Both :
                      /\ url = assets[i].browser_download_url
                      /\ \A j \in Both : i <= j

\* C14 witness: two assets match, and the URL returned is the first one's, the
\* architecture being a proper part of a longer one in the name
C14_Witness ==
    /\ act = "GetLatestRunnerRelease"
    /\ outcome = "returned"
    /\ Both = {1, 2}
    /\ architecture = <<"arm">>
    /\ assets[1].name = <<"linux", "arm", "64">>
    /\ url = <<"download", 1>>

(***************************************************************************)
(* Properties of the script rendering                                      *)
(***************************************************************************)
\* C15: build_user_data is deterministic and total.  What it does is fixed by
\* its inputs, the template and the values supplied: when the values cover
\* every placeholder of the template it returns the script with each
\* placeholder replaced by the value supplied for it, none left in it (so two
\* renderings with the same inputs are identical); when a placeholder of the
\* template has no value it raises the wrapped template error and returns no
\* script, not even a partly substituted one.
C15_Render ==
    act = "BuildUserData"
       => IF \A p \in tmpl : p \in DOMAIN given
          THEN /\ outcome = "returned"
               /\ DOMAIN rendered = tmpl
               /\ \A p \in tmpl : rendered[p] = given[p]
          ELSE /\ outcome = "TemplateError"
               /\ rendered = NoArguments

\* C15 witness: a rendering with every placeholder of the template supplied
\* and a value more, the other class's name of the release
C15_Witness ==
    /\ act = "BuildUserData"
    /\ outcome = "returned"
    /\ tmpl = TemplateSnake
    /\ DOMAIN given = TemplateSnake \cup {"runnerRelease"}
    /\ rendered["token"] = "token-2"

(***************************************************************************)
(* Properties of the registry client: removal of several runners           *)
(***************************************************************************)
\* the runners of rs carrying l, in listing order
InListingOrder(rs, l, ms) ==
    /\ Len(ms) = Cardinality(Carriers(rs, l))
    /\ \E f \in [1..Len(ms) -> Carriers(rs, l)] :
          /\ \A i, j \in 1..Len(ms) : i < j => f[i] < f[j]
          /\ \A i \in 1..Len(ms) : ms[i] = rs[f[i]]

\* C16: remove_runners(label) removes the matching runners one at a time in
\* listing order and stops at the first removal the service reports as failed:
\* it raises RuntimeError at once, issues no request for the remaining
\* matching runners and leaves the runners already removed removed.
C16_StopsAtFirstFailure ==
    [][ /\ act' = "RemoveRunnersCall"
            => /\ InListingOrder(runners, label', matched')
               /\ reqLog' = << >>
               /\ runners' = runners
        /\ act' = "RemoveRunnersRequest"
            => /\ outcome = "none"
               /\ matched # << >>
               /\ Len(reqLog') = Len(reqLog) + 1
               /\ SubSeq(reqLog', 1, Len(reqLog)) = reqLog
               /\ reqLog'[Len(reqLog')].id = Head(matched).id
               /\ matched' = Tail(matched)
               /\ \A i \in 1..Len(reqLog) :
                     reqLog[i].removed /\ ~Registered(runners', reqLog[i].id)
               /\ IF reqLog'[Len(reqLog')].removed
                  THEN /\ ~Registered(runners', Head(matched).id)
                       /\ outcome' = "returned" <=> matched' = << >>
                       /\ outcome' = "none" <=> matched' # << >>
                  ELSE /\ outcome' = "RuntimeError"
                       /\ pc' = "idle"
                       /\ runners' = runners
      ]_vars

\* C16 witness: remove_runners raised RuntimeError after removing one runner;
\* the one whose removal failed and one it never asked to remove still carry
\* the label
C16_Witness ==
    /\ act = "RemoveRunnersRequest"
    /\ outcome = "RuntimeError"
    /\ Len(reqLog) = 2
    /\ reqLog[1].removed
    /\ Registered(runners, reqLog[2].id)
    /\ matched # << >>
    /\ Registered(runners, Head(matched).id)
    /\ Cardinality(Carriers(runners, label)) = 2

(***************************************************************************)
(* Properties of the registry client: runners of other labels              *)
(***************************************************************************)
\* C17: whatever other lifecycles register and deregister in between, every
\* step of remove_runner(label) and remove_runners(label) leaves registered
\* every runner whose label set does not contain label, whether the call
\* returns, raises MissingRunnerLabel or raises RuntimeError.
C17_OtherLabelsKept ==
    [][ act' \in {"RemoveRunnerCall", "RemoveRunnerRequest",
                  "RemoveRunnersCall", "RemoveRunnersRequest"}
           => \A i \in 1..Len(runners) :
                 label' \notin runners[i].labels
                    => \E j \in 1..Len(runners') : runners'[j] = runners[i]
      ]_vars

\* C17 witness: remove_runners("a") has removed two runners and returned; a
\* runner of label "b" only, registered between the two, is still there
C17_Witness ==
    /\ act = "RemoveRunnersRequest"
    /\ outcome = "returned"
    /\ label = "a"
    /\ Len(reqLog) = 2
    /\ Len(runners) = 1
    /\ runners[1].labels = {"b"}
    /\ reqLog[1].id < runners[1].id
    /\ runners[1].id < reqLog[2].id

(***************************************************************************)
(* Properties of the two provider classes                                  *)
(***************************************************************************)
OtherClass(im) == IF im = "clouddeployment" THEN "interface" ELSE "clouddeployment"

\* a request without its rendered script
WithoutUserData(params) == [k \in DOMAIN params \ {"UserData"} |-> params[k]]

\* C18: clouddeployment.AWS and interface.AWS issue the same provider calls
\* for the same configuration values and the same calls made on them: the
\* run_instances request of either class has, the rendered script apart, the
\* keys and values the other class builds from that configuration and count;
\* a termination is one terminate_instances call with the ids given; and the
\* waits are, whatever the class, one instance_running wait with the poll
\* options given for wait_until_ready, and for wait_until_removed an
\* instance_terminated wait without poll options followed by one with the poll
\* options given.
C18_SameProviderCalls ==
    /\ act \in {"CreateInstance", "CreateInstanceRejected"}
          => /\ Len(calls) = 1
             /\ calls[1].call = "run_instances"
             /\ "UserData" \in DOMAIN calls[1].args
             /\ WithoutUserData(calls[1].args) =
                   WithoutUserData(run_instances_params(OtherClass(impl), cfg, count,
                                                        NoArguments))
    /\ op = "remove_instances"
          => calls = <<[call |-> "terminate_instances", InstanceIds |-> ids]>>
    /\ op = "wait_until_ready"
          => calls = <<[call |-> "wait", waiter |-> "instance_running",
                        InstanceIds |-> ids, WaiterConfig |-> kwargs]>>
    /\ op = "wait_until_removed"
          => /\ Len(calls) = IF pc = "removed_wait_second" \/ outcome = "returned"
                             THEN 2 ELSE IF pc = "removed_wait_first" THEN 1
                             ELSE Len(calls)
             /\ Len(calls) \in {1, 2}
             /\ calls[1] = [call |-> "wait", waiter |-> "instance_terminated",
                            InstanceIds |-> ids, WaiterConfig |-> {}]
             /\ Len(calls) = 2
                   => calls[2] = [call |-> "wait", waiter |-> "instance_terminated",
                                  InstanceIds |-> ids, WaiterConfig |-> kwargs]

\* C18 witness: interface.AWS, every optional field configured, has sent a
\* request for two instances
C18_Witness ==
    /\ act = "CreateInstance"
    /\ impl = "interface"
    /\ cfg = Config("subnet-1", "sg-1", "role-1")
    /\ count = 2
    /\ DOMAIN calls[1].args = MandatoryKeys \cup OptionalKeys
    /\ calls[1].args["IamInstanceProfile"] = [Name |-> "role-1"]

====
